---- MODULE Spec2Model ----
(***************************************************************************)
(* QuickLaunch (src-tauri/src/lib.rs): the shortcut indexer (scan_apps,    *)
(* get_apps) and the popup's visibility / hotkey / position state machine. *)
(*                                                                         *)
(* Strings that the code inspects character by character (file names) are  *)
(* sequences of ASCII codes, so that to_lowercase, contains, extension,    *)
(* file_stem and the byte-wise comparison of names are computed as the     *)
(* code computes them.                                                     *)
(***************************************************************************)
EXTENDS Integers, Sequences, FiniteSets, TLC

VARIABLES
    env,        \* per environment variable: "unset", "absent" (set, directory missing), "present"
    disk,       \* the shortcut roots' content: sequence of [root, item], in walk order
    apps,       \* the value last returned by get_apps, or NoResult
    phase,      \* "created" (before setup), "running", "exited"
    visible,    \* the popup is visible (Shown) or not (Hidden)
    focused,    \* the popup holds the input focus
    pos,        \* outer position of the popup, physical pixels
    monitor,    \* size of the current monitor, None when no monitor information is available
    winSize,    \* outer size of the popup, None when it cannot be read
    last_pos,   \* AppState.last_pos
    taken,      \* the hotkey candidates bound by other processes
    registered, \* the candidate this process has bound, None if none
    attempted,  \* the candidates handed to on_shortcut, in call order
    emitted,    \* the events emitted toward the presentation layer, in order
    trayBuilt,  \* the tray icon and its handlers exist
    keyDown,    \* the registered key combination is held down
    tasks,      \* the spawned toggle tasks, counted by position
    nPressed,   \* history: pressed transitions delivered to the hotkey callback
    nSpawned,   \* history: toggle tasks spawned by the hotkey callback
    nToggles,   \* history: toggle requests carried out since setup
    saved,      \* history: the position the last successful save_window_pos read, None before
    ret,        \* the value returned by the last window command
    platform,   \* the target the program was built for: "windows" or "other"
    procs,      \* the paths the OS was handed and has started, in order
    lastLaunch, \* history: whether the last launch_app asked the OS, and whether the spawn succeeded
    calls,      \* the position commands under way on the task pool: operation, next step, local value
    lockHolder  \* the call holding the guard of AppState.last_pos, None when the mutex is free

scanVars == <<env, disk, apps>>

winVars == <<phase, visible, focused, pos, monitor, winSize, last_pos, taken, registered,
             attempted, emitted, trayBuilt, keyDown, tasks, nPressed, nSpawned, nToggles,
             saved, ret>>

launchVars == <<platform, procs, lastLaunch>>

lockVars == <<calls, lockHolder>>

vars == <<env, disk, apps, phase, visible, focused, pos, monitor, winSize, last_pos, taken,
          registered, attempted, emitted, trayBuilt, keyDown, tasks, nPressed, nSpawned,
          nToggles, saved, ret, platform, procs, lastLaunch, calls, lockHolder>>

(***************************************************************************)
(* Bounds of the model.                                                    *)
(***************************************************************************)
MaxFiles == 2

MaxToggles == 2

MaxSeqToggles == 3

MaxEvents == 3

MaxLaunches == 2

MaxCalls == 2

(***************************************************************************)
(* Strings.                                                                *)
(***************************************************************************)
DOT == 46

LNK == <<108, 110, 107>>                                  \* "lnk"
TXT == <<116, 120, 116>>                                  \* "txt"

W_UNINSTALL == <<117, 110, 105, 110, 115, 116, 97, 108, 108>>   \* "uninstall"
W_README    == <<114, 101, 97, 100, 109, 101>>                  \* "readme"
W_HELP      == <<104, 101, 108, 112>>                           \* "help"
W_MANUAL    == <<109, 97, 110, 117, 97, 108>>                   \* "manual"

N_App          == <<65, 112, 112>>                                        \* "App"
N_app          == <<97, 112, 112>>                                        \* "app"
N_Bee          == <<66, 101, 101>>                                        \* "Bee"
N_Helper       == <<72, 101, 108, 112, 101, 114>>                         \* "Helper"
N_ReadMe       == <<82, 101, 97, 100, 77, 101>>                           \* "ReadMe"
N_UninstallFoo == <<85, 110, 105, 110, 115, 116, 97, 108, 108, 70, 111, 111>>  \* "UninstallFoo"
N_Manual       == <<77, 97, 110, 117, 97, 108>>                           \* "Manual"
N_Zed          == <<90, 101, 100>>                                        \* "Zed"

\* char::to_lowercase on the ASCII range
LowerChar(c) == IF c >= 65 /\ c <= 90 THEN c + 32 ELSE c

\* str::to_lowercase
to_lowercase(s) == [i \in 1..Len(s) |-> LowerChar(s[i])]

\* str::contains(&str)
contains(hay, needle) ==
    \E i \in 1..(Len(hay) - Len(needle) + 1) :
        SubSeq(hay, i, i + Len(needle) - 1) = needle

\* Ord::cmp on str: lexicographic on bytes; StrLess(a, b) iff a.cmp(b) == Less
RECURSIVE StrLess(_, _)
StrLess(a, b) ==
    IF b = <<>> THEN FALSE
    ELSE IF a = <<>> THEN TRUE
    ELSE IF a[1] # b[1] THEN a[1] < b[1]
    ELSE StrLess(Tail(a), Tail(b))

\* index of the last '.' of a file name, 0 if there is none
LastDot(f) ==
    IF \E i \in 1..Len(f) : f[i] = DOT
    THEN CHOOSE i \in 1..Len(f) : f[i] = DOT /\ \A j \in (i+1)..Len(f) : f[j] # DOT
    ELSE 0

\* Option: None is the empty sequence, Some(x) the sequence holding x
None == <<>>

Some(x) == <<x>>

\* Path::extension: None without a dot, or when the only dot leads the name
extension(f) ==
    IF LastDot(f) <= 1 THEN None ELSE Some(SubSeq(f, LastDot(f) + 1, Len(f)))

\* Path::file_stem: the name up to its last dot; the whole name when extension is None
file_stem(f) ==
    IF LastDot(f) <= 1 THEN f ELSE SubSeq(f, 1, LastDot(f) - 1)

FileName(stem, ext) == stem \o <<DOT>> \o ext

(***************************************************************************)
(* Directory Resolver.                                                     *)
(***************************************************************************)
EnvVars == <<"PROGRAMDATA", "APPDATA", "USERPROFILE">>

EnvVarSet == {EnvVars[i] : i \in 1..Len(EnvVars)}

\* the path joined to each variable's value
DirTail(v) ==
    IF v = "USERPROFILE" THEN <<"Desktop">>
    ELSE <<"Microsoft", "Windows", "Start Menu", "Programs">>

\* a root directory: the variable whose value is its base, and the joined components
Dir(v) == [base |-> v, tail |-> DirTail(v)]

\* get_start_menu_dirs: one root per variable that is set, in the fixed order
get_start_menu_dirs ==
    LET set == SelectSeq(EnvVars, LAMBDA v : env[v] # "unset")
    IN  [i \in 1..Len(set) |-> Dir(set[i])]

\* Path::exists
exists(dir) == env[dir.base] = "present"

(***************************************************************************)
(* The walk of a root.                                                     *)
(***************************************************************************)
MAX_DEPTH == 5

ErrItem == [ok |-> FALSE, sub |-> <<>>, file |-> <<>>]

File(sub, f) == [ok |-> TRUE, sub |-> sub, file |-> f]

DeepSub == <<"a", "b", "c", "d", "e">>

\* what a root may hold: shortcuts, another file, an unreadable entry, a file below the depth bound
Pool ==
    { File(<<>>, FileName(N_App, LNK)),
      File(<<"Tools">>, FileName(N_App, LNK)),
      File(<<>>, FileName(N_app, LNK)),
      File(<<>>, FileName(N_Bee, LNK)),
      File(<<"Tools">>, FileName(N_Helper, LNK)),
      File(<<>>, FileName(N_ReadMe, LNK)),
      File(<<>>, FileName(N_UninstallFoo, LNK)),
      File(<<>>, FileName(N_Manual, LNK)),
      File(<<>>, FileName(N_Bee, TXT)),
      File(DeepSub, FileName(N_Zed, LNK)),
      ErrItem }

\* depth of an entry below its root (the root itself is depth 0)
Depth(item) == Len(item.sub) + 1

\* WalkDir::new(dir).max_depth(5).follow_links(true).into_iter(): the entries of
\* the root in walk order; a missing root yields a single error
WalkDir(dir) ==
    IF env[dir.base] # "present" THEN <<ErrItem>>
    ELSE LET mine == SelectSeq(disk, LAMBDA d : d.root = dir.base /\ Depth(d.item) <= MAX_DEPTH)
         IN  [i \in 1..Len(mine) |-> mine[i].item]

(***************************************************************************)
(* Shortcut Scanner.                                                       *)
(***************************************************************************)
\* IsNoise without the lowercasing
IsNoiseCaseSensitive(name) ==
    \/ contains(name, W_UNINSTALL) \/ contains(name, W_README)
    \/ contains(name, W_HELP) \/ contains(name, W_MANUAL)

\* the noise-word test of scan_apps
IsNoise(name) ==
    LET lower == to_lowercase(name)
    IN  \/ contains(lower, W_UNINSTALL) \/ contains(lower, W_README)
        \/ contains(lower, W_HELP) \/ contains(lower, W_MANUAL)

\* Path::file_name of a root, as the category string
Category(dir) ==
    IF dir.tail = <<>> THEN "Other" ELSE dir.tail[Len(dir.tail)]

\* the body of the inner loop: the entry pushed for one walked item, if any
RECURSIVE ScanWalk(_, _)
ScanWalk(dir, walk) ==
    IF walk = <<>> THEN <<>>
    ELSE LET e    == Head(walk)
             name == file_stem(e.file)
         IN  IF ~e.ok THEN ScanWalk(dir, Tail(walk))
             ELSE IF extension(e.file) # Some(LNK) THEN ScanWalk(dir, Tail(walk))
             ELSE IF IsNoise(name) THEN ScanWalk(dir, Tail(walk))
             ELSE <<[name |-> name,
                     path |-> [base |-> dir.base, tail |-> dir.tail \o e.sub, file |-> e.file],
                     icon |-> None,
                     category |-> Category(dir)]>> \o ScanWalk(dir, Tail(walk))

\* Collect leaving the loop at the first missing root
RECURSIVE CollectBreak(_)
CollectBreak(dirs) ==
    IF dirs = <<>> THEN <<>>
    ELSE IF ~exists(Head(dirs)) THEN <<>>
    ELSE ScanWalk(Head(dirs), WalkDir(Head(dirs))) \o CollectBreak(Tail(dirs))

\* the outer loop: roots in order, missing roots skipped
RECURSIVE Collect(_)
Collect(dirs) ==
    IF dirs = <<>> THEN <<>>
    ELSE IF ~exists(Head(dirs)) THEN Collect(Tail(dirs))
    ELSE ScanWalk(Head(dirs), WalkDir(Head(dirs))) \o Collect(Tail(dirs))

\* Retain with the path as the key
RECURSIVE RetainByPath(_, _)
RetainByPath(list, seen) ==
    IF list = <<>> THEN <<>>
    ELSE IF Head(list).path \in seen THEN RetainByPath(Tail(list), seen)
    ELSE <<Head(list)>> \o RetainByPath(Tail(list), seen \cup {Head(list).path})

\* Retain keeping the last entry of each name
RECURSIVE RetainLast(_, _)
RetainLast(list, seen) ==
    IF list = <<>> THEN <<>>
    ELSE IF \E i \in 2..Len(list) : list[i].name = Head(list).name
         THEN RetainLast(Tail(list), seen)
    ELSE <<Head(list)>> \o RetainLast(Tail(list), seen)

\* apps.retain(|a| seen.insert(a.name.clone()))
RECURSIVE Retain(_, _)
Retain(list, seen) ==
    IF list = <<>> THEN <<>>
    ELSE IF Head(list).name \in seen THEN Retain(Tail(list), seen)
    ELSE <<Head(list)>> \o Retain(Tail(list), seen \cup {Head(list).name})

\* NameLess comparing the lowercased names
NameLessIgnoreCase(a, b) == StrLess(to_lowercase(a.name), to_lowercase(b.name))

\* the comparator of sort_by: a.name.cmp(&b.name) == Less
NameLess(a, b) == StrLess(a.name, b.name)

\* stable insertion of x behind the entries that do not compare greater
RECURSIVE InsertSorted(_, _)
InsertSorted(x, sorted) ==
    IF sorted = <<>> THEN <<x>>
    ELSE IF NameLess(x, Head(sorted)) THEN <<x>> \o sorted
    ELSE <<Head(sorted)>> \o InsertSorted(x, Tail(sorted))

\* apps.sort_by(...): a stable sort
RECURSIVE SortByName(_)
SortByName(list) ==
    IF list = <<>> THEN <<>>
    ELSE InsertSorted(list[Len(list)], SortByName(SubSeq(list, 1, Len(list) - 1)))

scan_apps(dirs) == SortByName(Retain(Collect(dirs), {}))

\* no command has returned yet
NoResult == [returned |-> FALSE, ok |-> FALSE, value |-> <<>>]

\* the command get_apps: resolve the roots, scan, wrap in Ok
get_apps ==
    /\ apps' = [returned |-> TRUE, ok |-> TRUE, value |-> scan_apps(get_start_menu_dirs)]
    /\ UNCHANGED <<env, disk>>
    /\ UNCHANGED winVars
    /\ UNCHANGED launchVars
    /\ UNCHANGED lockVars

(***************************************************************************)
(* The popup window.                                                       *)
(***************************************************************************)
I32_MAX == 2147483647

\* u32 as i32: the identity up to I32_MAX; the sizes of the model lie below it
\* (a monitor or window of 2^31 pixels or more would wrap to a negative number)
AsI32(n) == IF n <= I32_MAX THEN n ELSE n - I32_MAX - I32_MAX - 2

\* i32 division: truncates toward zero
DivTrunc(a, b) == IF a >= 0 THEN a \div b ELSE -((-a) \div b)

UPWARD_OFFSET == 80

\* the size used when outer_size fails: unwrap_or_default
SizeOrDefault == IF winSize = None THEN [width |-> 0, height |-> 0] ELSE winSize[1]

\* center_window_on_screen placing the popup at the true center, without the upward offset
center_no_offset(p) ==
    IF monitor = None THEN p
    ELSE LET s == monitor[1]
             w == SizeOrDefault
         IN  [x |-> DivTrunc(AsI32(s.width) - AsI32(w.width), 2),
              y |-> DivTrunc(AsI32(s.height), 2) - DivTrunc(AsI32(w.height), 2)]

\* center_window_on_screen moving the popup to the origin when there is no monitor
center_origin_without_monitor(p) ==
    IF monitor = None THEN [x |-> 0, y |-> 0]
    ELSE LET s == monitor[1]
             w == SizeOrDefault
         IN  [x |-> DivTrunc(AsI32(s.width) - AsI32(w.width), 2),
              y |-> DivTrunc(AsI32(s.height), 2) - DivTrunc(AsI32(w.height), 2) - UPWARD_OFFSET]

\* center_window_on_screen: the position of the popup afterwards, p being its position before
center_window_on_screen(p) ==
    IF monitor = None THEN p
    ELSE LET s == monitor[1]
             w == SizeOrDefault
         IN  [x |-> DivTrunc(AsI32(s.width) - AsI32(w.width), 2),
              y |-> DivTrunc(AsI32(s.height), 2) - DivTrunc(AsI32(w.height), 2) - UPWARD_OFFSET]

Event(name, payload) == [name |-> name, payload |-> payload]

ResetSearch == Event("reset-search", <<>>)

\* HideBranch with the reset-search emission of the other branch
HideBranchEmits ==
    /\ visible' = FALSE
    /\ focused' = FALSE
    /\ emitted' = Append(emitted, ResetSearch)
    /\ UNCHANGED pos

\* win.hide()
HideBranch ==
    /\ visible' = FALSE
    /\ focused' = FALSE
    /\ UNCHANGED <<pos, emitted>>

\* ShowBranch without the centering
ShowBranchNoCenter ==
    /\ visible' = TRUE
    /\ focused' = TRUE
    /\ emitted' = Append(emitted, ResetSearch)
    /\ UNCHANGED pos

\* center_window_on_screen(&win); win.show(); win.set_focus(); win.emit("reset-search", ())
ShowBranch ==
    /\ pos' = center_window_on_screen(pos)
    /\ visible' = TRUE
    /\ focused' = TRUE
    /\ emitted' = Append(emitted, ResetSearch)

(***************************************************************************)
(* Hotkey Registrar.                                                       *)
(***************************************************************************)
HOTKEY_CANDIDATES ==
    << [mods |-> Some({"CONTROL", "SHIFT"}), key |-> "Space"],
       [mods |-> Some({"CONTROL", "SHIFT"}), key |-> "F1"],
       [mods |-> Some({"CONTROL", "SHIFT"}), key |-> "KeyQ"] >>

CandidateIds == 1..Len(HOTKEY_CANDIDATES)

\* the name format_shortcut gives a key code
KeyName(key) ==
    CASE key = "Space" -> "Space"
      [] key = "F1"    -> "F1"
      [] key = "KeyQ"  -> "Q"
      [] OTHER         -> "?"

\* parts.join("+"): the parts with the separator between them, as a sequence of pieces
RECURSIVE join(_, _)
join(parts, sep) ==
    IF Len(parts) <= 1 THEN parts
    ELSE <<Head(parts), sep>> \o join(Tail(parts), sep)

\* format_shortcut: the modifier names in fixed order, the key's name, joined by "+"
format_shortcut(mods, key) ==
    LET m == IF mods = None THEN {} ELSE mods[1]
        parts == (IF "CONTROL" \in m THEN <<"Ctrl">> ELSE <<>>)
              \o (IF "ALT" \in m THEN <<"Alt">> ELSE <<>>)
              \o (IF "SHIFT" \in m THEN <<"Shift">> ELSE <<>>)
              \o (IF "SUPER" \in m THEN <<"Win">> ELSE <<>>)
              \o <<KeyName(key)>>
    IN  join(parts, "+")

HOTKEY_FAILED_MESSAGE == "all hotkeys are taken, open the launcher from the tray icon"

\* on_shortcut(shortcut, handler): Ok iff no other process holds the combination
on_shortcut_ok(i, bound) == i \notin bound

RegisterResult(att, reg, evs) == [attempted |-> att, registered |-> reg, events |-> evs]

\* the loop of register_hotkey without the return on success
RECURSIVE RegisterNoReturn(_, _, _)
RegisterNoReturn(i, bound, sofar) ==
    IF i > Len(HOTKEY_CANDIDATES)
    THEN RegisterResult(sofar.attempted, sofar.registered,
                        Append(sofar.events, Event("hotkey-failed", HOTKEY_FAILED_MESSAGE)))
    ELSE IF on_shortcut_ok(i, bound)
         THEN RegisterNoReturn(i + 1, bound,
                  RegisterResult(Append(sofar.attempted, i), Some(i),
                      Append(sofar.events,
                             Event("hotkey-registered",
                                   format_shortcut(HOTKEY_CANDIDATES[i].mods, HOTKEY_CANDIDATES[i].key)))))
         ELSE RegisterNoReturn(i + 1, bound,
                  RegisterResult(Append(sofar.attempted, i), sofar.registered, sofar.events))

\* the loop of register_hotkey emitting nothing when the list is exhausted
RECURSIVE RegisterSilent(_, _, _)
RegisterSilent(i, bound, sofar) ==
    IF i > Len(HOTKEY_CANDIDATES) THEN sofar
    ELSE IF on_shortcut_ok(i, bound)
         THEN RegisterResult(Append(sofar.attempted, i), Some(i),
                  Append(sofar.events,
                         Event("hotkey-registered",
                               format_shortcut(HOTKEY_CANDIDATES[i].mods, HOTKEY_CANDIDATES[i].key))))
         ELSE RegisterSilent(i + 1, bound,
                  RegisterResult(Append(sofar.attempted, i), sofar.registered, sofar.events))

\* the loop of register_hotkey from candidate i on: what was attempted, what
\* got bound, and what was emitted
RECURSIVE RegisterFrom(_, _, _)
RegisterFrom(i, bound, sofar) ==
    IF i > Len(HOTKEY_CANDIDATES)
    THEN RegisterResult(sofar.attempted, sofar.registered,
                        Append(sofar.events, Event("hotkey-failed", HOTKEY_FAILED_MESSAGE)))
    ELSE IF on_shortcut_ok(i, bound)
         THEN RegisterResult(Append(sofar.attempted, i), Some(i),
                  Append(sofar.events,
                         Event("hotkey-registered",
                               format_shortcut(HOTKEY_CANDIDATES[i].mods, HOTKEY_CANDIDATES[i].key))))
         ELSE RegisterFrom(i + 1, bound,
                  RegisterResult(Append(sofar.attempted, i), sofar.registered, sofar.events))

register_hotkey(bound) == RegisterFrom(1, bound, RegisterResult(<<>>, None, <<>>))

(***************************************************************************)
(* Startup.  The window calls whose failure the code drops (let _ = ...)   *)
(* take effect; the tray is built.                                         *)
(***************************************************************************)
NoTasks == [spawned |-> 0, sawVisible |-> 0, sawHidden |-> 0]

NoReturn == [cmd |-> "none", ok |-> TRUE]

\* the process after the window is created and AppState is managed, before setup runs
WinCreated ==
    /\ phase = "created"
    /\ focused = FALSE
    /\ last_pos = None
    /\ registered = None
    /\ attempted = <<>>
    /\ emitted = <<>>
    /\ trayBuilt = FALSE
    /\ keyDown = FALSE
    /\ tasks = NoTasks
    /\ nPressed = 0
    /\ nSpawned = 0
    /\ nToggles = 0
    /\ saved = None
    /\ ret = NoReturn

\* setup: blur, center, hide, build_tray, register_hotkey
setup ==
    /\ phase = "created"
    /\ LET r == register_hotkey(taken)
       IN  /\ registered' = r.registered
           /\ attempted' = r.attempted
           /\ emitted' = emitted \o r.events
    /\ pos' = center_window_on_screen(pos)
    /\ visible' = FALSE
    /\ focused' = FALSE
    /\ trayBuilt' = TRUE
    /\ phase' = "running"
    /\ UNCHANGED <<monitor, winSize, last_pos, taken, keyDown, tasks, nPressed, nSpawned,
                   nToggles, saved, ret>>
    /\ UNCHANGED scanVars
    /\ UNCHANGED lockVars
    /\ UNCHANGED launchVars

(***************************************************************************)
(* Visibility Controller.                                                  *)
(***************************************************************************)
Pending == tasks.spawned + tasks.sawVisible + tasks.sawHidden

\* the callback acting on either transition
AnyTransition(state) == TRUE

\* the filter of the hotkey callback: event.state() == ShortcutState::Pressed
IsPressed(state) == state = "Pressed"

\* the callback registered by on_shortcut, run for one transition of the bound combination
\* (budget bounds the toggle requests of a run)
HotkeyCallback(state, budget) ==
    /\ phase = "running"
    /\ registered # None
    /\ keyDown = (state = "Released")
    /\ state = "Pressed" => nToggles + Pending < budget
    /\ keyDown' = (state = "Pressed")
    /\ nPressed' = IF state = "Pressed" THEN nPressed + 1 ELSE nPressed
    /\ IF IsPressed(state)
       THEN /\ tasks' = [tasks EXCEPT !.spawned = @ + 1]
            /\ nSpawned' = nSpawned + 1
       ELSE UNCHANGED <<tasks, nSpawned>>
    /\ UNCHANGED <<phase, visible, focused, pos, monitor, winSize, last_pos, taken, registered,
                   attempted, emitted, trayBuilt, nToggles, saved, ret>>
    /\ UNCHANGED scanVars
    /\ UNCHANGED lockVars
    /\ UNCHANGED launchVars

HotkeyEvent == \E state \in {"Pressed", "Released"} : HotkeyCallback(state, MaxToggles)

\* a spawned task reads win.is_visible()
TaskCheck ==
    /\ phase = "running"
    /\ tasks.spawned > 0
    /\ tasks' = IF visible
                THEN [tasks EXCEPT !.spawned = @ - 1, !.sawVisible = @ + 1]
                ELSE [tasks EXCEPT !.spawned = @ - 1, !.sawHidden = @ + 1]
    /\ UNCHANGED <<phase, visible, focused, pos, monitor, winSize, last_pos, taken, registered,
                   attempted, emitted, trayBuilt, keyDown, nPressed, nSpawned, nToggles,
                   saved, ret>>
    /\ UNCHANGED scanVars
    /\ UNCHANGED lockVars
    /\ UNCHANGED launchVars

\* a task that has read the visibility acts on what it read
TaskAct ==
    /\ phase = "running"
    /\ \/ /\ tasks.sawVisible > 0
          /\ tasks' = [tasks EXCEPT !.sawVisible = @ - 1]
          /\ HideBranch
       \/ /\ tasks.sawHidden > 0
          /\ tasks' = [tasks EXCEPT !.sawHidden = @ - 1]
          /\ ShowBranch
    /\ nToggles' = nToggles + 1
    /\ UNCHANGED <<phase, monitor, winSize, last_pos, taken, registered, attempted, trayBuilt,
                   keyDown, nPressed, nSpawned, saved, ret>>
    /\ UNCHANGED scanVars
    /\ UNCHANGED lockVars
    /\ UNCHANGED launchVars

\* on_tray_icon_event for a left click (button released): toggle, on the UI thread
TrayClick(budget) ==
    /\ phase = "running"
    /\ trayBuilt
    /\ nToggles + Pending < budget
    /\ IF visible THEN HideBranch ELSE ShowBranch
    /\ nToggles' = nToggles + 1
    /\ UNCHANGED <<phase, monitor, winSize, last_pos, taken, registered, attempted, trayBuilt,
                   keyDown, tasks, nPressed, nSpawned, saved, ret>>
    /\ UNCHANGED scanVars
    /\ UNCHANGED lockVars
    /\ UNCHANGED launchVars

TrayLeftClick == TrayClick(MaxToggles)

\* on_menu_event "show"
TrayMenuShow ==
    /\ phase = "running"
    /\ trayBuilt
    /\ Len(emitted) < MaxEvents
    /\ ShowBranch
    /\ UNCHANGED <<phase, monitor, winSize, last_pos, taken, registered, attempted, trayBuilt,
                   keyDown, tasks, nPressed, nSpawned, nToggles, saved, ret>>
    /\ UNCHANGED scanVars
    /\ UNCHANGED lockVars
    /\ UNCHANGED launchVars

\* on_menu_event "quit": app.exit(0)
TrayMenuQuit ==
    /\ phase = "running"
    /\ trayBuilt
    /\ phase' = "exited"
    /\ UNCHANGED <<visible, focused, pos, monitor, winSize, last_pos, taken, registered,
                   attempted, emitted, trayBuilt, keyDown, tasks, nPressed, nSpawned, nToggles,
                   saved, ret>>
    /\ UNCHANGED scanVars
    /\ UNCHANGED lockVars
    /\ UNCHANGED launchVars

(***************************************************************************)
(* Window commands.                                                        *)
(***************************************************************************)
Return(cmd, ok) == [cmd |-> cmd, ok |-> ok]

hide_window ==
    /\ phase = "running"
    /\ visible' = FALSE
    /\ focused' = FALSE
    /\ ret' = Return("hide_window", TRUE)
    /\ UNCHANGED <<phase, pos, monitor, winSize, last_pos, taken, registered, attempted,
                   emitted, trayBuilt, keyDown, tasks, nPressed, nSpawned, nToggles, saved>>
    /\ UNCHANGED scanVars
    /\ UNCHANGED lockVars
    /\ UNCHANGED launchVars

show_window ==
    /\ phase = "running"
    /\ visible' = TRUE
    /\ focused' = TRUE
    /\ ret' = Return("show_window", TRUE)
    /\ UNCHANGED <<phase, pos, monitor, winSize, last_pos, taken, registered, attempted,
                   emitted, trayBuilt, keyDown, tasks, nPressed, nSpawned, nToggles, saved>>
    /\ UNCHANGED scanVars
    /\ UNCHANGED lockVars
    /\ UNCHANGED launchVars

WindowPos(x, y) == [x |-> x, y |-> y]

\* the slot written by save_window_pos with x and y exchanged
SavedSlotSwapped(p) == Some(WindowPos(p.y, p.x))

\* the value save_window_pos stores for the position p it has read
SavedSlot(p) == Some(WindowPos(p.x, p.y))

\* save_window_pos; outer_position may fail, and then nothing is stored
save_window_pos ==
    /\ phase = "running"
    /\ \E readOk \in BOOLEAN :
        IF readOk
        THEN /\ last_pos' = SavedSlot(pos)
             /\ saved' = Some(pos)
             /\ ret' = Return("save_window_pos", TRUE)
        ELSE /\ ret' = Return("save_window_pos", FALSE)
             /\ UNCHANGED <<last_pos, saved>>
    /\ UNCHANGED <<phase, visible, focused, pos, monitor, winSize, taken, registered, attempted,
                   emitted, trayBuilt, keyDown, tasks, nPressed, nSpawned, nToggles>>
    /\ UNCHANGED scanVars
    /\ UNCHANGED lockVars
    /\ UNCHANGED launchVars

\* the position restore_window_pos leaves the popup at, slot being the cloned
\* last_pos and p the position before
RestoredPos(slot, p) ==
    IF slot # None
    THEN [x |-> slot[1].x, y |-> slot[1].y]
    ELSE center_window_on_screen(p)

\* the slot emptied by the read, as Option::take would leave it
SlotAfterTake(slot) == None

\* the slot after state.last_pos.lock().unwrap().clone(): the clone leaves it as it was
SlotAfterClone(slot) == slot

restore_window_pos ==
    /\ phase = "running"
    /\ pos' = RestoredPos(last_pos, pos)
    /\ last_pos' = SlotAfterClone(last_pos)
    /\ ret' = Return("restore_window_pos", TRUE)
    /\ UNCHANGED <<phase, visible, focused, monitor, winSize, taken, registered,
                   attempted, emitted, trayBuilt, keyDown, tasks, nPressed, nSpawned, nToggles,
                   saved>>
    /\ UNCHANGED scanVars
    /\ UNCHANGED lockVars
    /\ UNCHANGED launchVars

(***************************************************************************)
(* The position commands step by step.  Each invocation runs as its own    *)
(* task; its steps are the window calls and the lock, write or clone, and  *)
(* unlock of the statement that touches AppState.last_pos.                 *)
(***************************************************************************)
PositionCommands == {"save_window_pos", "restore_window_pos"}

CallIds == 1..MaxCalls

IdleCall == [op |-> "idle", pc |-> "idle", local |-> None]

\* no position command is under way, the mutex is free
LockIdle ==
    /\ calls = [c \in CallIds |-> IdleCall]
    /\ lockHolder = None

FirstPc(op) == IF op = "save_window_pos" THEN "outer_position" ELSE "lock"

\* restore_window_pos with the guard alive until the end of the match
NextPcGuardInMatch(op, pc) ==
    IF op = "save_window_pos"
    THEN CASE pc = "outer_position" -> "lock"
           [] pc = "lock"           -> "write"
           [] pc = "write"          -> "unlock"
           [] pc = "unlock"         -> "return"
    ELSE CASE pc = "lock"           -> "clone"
           [] pc = "clone"          -> "apply"
           [] pc = "apply"          -> "unlock"
           [] pc = "unlock"         -> "return"

\* the step that follows pc in the body of op: the guard is a temporary, dropped
\* at the end of the statement that locks
NextPc(op, pc) ==
    IF op = "save_window_pos"
    THEN CASE pc = "outer_position" -> "lock"
           [] pc = "lock"           -> "write"
           [] pc = "write"          -> "unlock"
           [] pc = "unlock"         -> "return"
    ELSE CASE pc = "lock"           -> "clone"
           [] pc = "clone"          -> "unlock"
           [] pc = "unlock"         -> "apply"
           [] pc = "apply"          -> "return"

Advance(c) == [calls EXCEPT ![c].pc = NextPc(calls[c].op, calls[c].pc)]

\* what no step of a position command touches
CallFrame ==
    /\ UNCHANGED <<phase, visible, focused, monitor, winSize, taken, registered, attempted,
                   emitted, trayBuilt, keyDown, tasks, nPressed, nSpawned, nToggles>>
    /\ UNCHANGED scanVars
    /\ UNCHANGED launchVars

\* the presentation layer invokes a position command
StartCall ==
    /\ phase = "running"
    /\ \E c \in CallIds, op \in PositionCommands :
        /\ calls[c].op = "idle"
        /\ calls' = [calls EXCEPT ![c] = [op |-> op, pc |-> FirstPc(op), local |-> None]]
    /\ UNCHANGED <<pos, last_pos, saved, ret, lockHolder>>
    /\ CallFrame

\* save_window_pos: window.outer_position()?
ReadPosition ==
    \E c \in CallIds, readOk \in BOOLEAN :
        /\ calls[c].pc = "outer_position"
        /\ IF readOk
           THEN /\ calls' = [Advance(c) EXCEPT ![c].local = Some(pos)]
                /\ UNCHANGED ret
           ELSE /\ calls' = [calls EXCEPT ![c] = IdleCall]
                /\ ret' = Return("save_window_pos", FALSE)
        /\ UNCHANGED <<pos, last_pos, saved, lockHolder>>
        /\ CallFrame

\* state.last_pos.lock().unwrap(): waits while another call holds the guard
Lock ==
    \E c \in CallIds :
        /\ calls[c].pc = "lock"
        /\ lockHolder = None
        /\ lockHolder' = Some(c)
        /\ calls' = Advance(c)
        /\ UNCHANGED <<pos, last_pos, saved, ret>>
        /\ CallFrame

\* save_window_pos: *guard = Some(WindowPos { x: pos.x, y: pos.y })
Write ==
    \E c \in CallIds :
        /\ calls[c].pc = "write"
        /\ last_pos' = SavedSlot(calls[c].local[1])
        /\ saved' = calls[c].local
        /\ calls' = Advance(c)
        /\ UNCHANGED <<pos, ret, lockHolder>>
        /\ CallFrame

\* restore_window_pos: guard.clone()
Clone ==
    \E c \in CallIds :
        /\ calls[c].pc = "clone"
        /\ calls' = [Advance(c) EXCEPT ![c].local = last_pos]
        /\ UNCHANGED <<pos, last_pos, saved, ret, lockHolder>>
        /\ CallFrame

\* the guard is dropped
Unlock ==
    \E c \in CallIds :
        /\ calls[c].pc = "unlock"
        /\ lockHolder' = IF lockHolder = Some(c) THEN None ELSE lockHolder
        /\ calls' = Advance(c)
        /\ UNCHANGED <<pos, last_pos, saved, ret>>
        /\ CallFrame

\* restore_window_pos: the match on the cloned value, set_position or centering
Apply ==
    \E c \in CallIds :
        /\ calls[c].pc = "apply"
        /\ pos' = RestoredPos(calls[c].local, pos)
        /\ calls' = Advance(c)
        /\ UNCHANGED <<last_pos, saved, ret, lockHolder>>
        /\ CallFrame

\* Ok(())
ReturnOk ==
    \E c \in CallIds :
        /\ calls[c].pc = "return"
        /\ ret' = Return(calls[c].op, TRUE)
        /\ calls' = [calls EXCEPT ![c] = IdleCall]
        /\ UNCHANGED <<pos, last_pos, saved, lockHolder>>
        /\ CallFrame

(***************************************************************************)
(* Launch Dispatcher.                                                      *)
(***************************************************************************)
NoLaunch == [asked |-> FALSE, spawned |-> FALSE]

\* no launch_app has run
LaunchIdle ==
    /\ procs = <<>>
    /\ lastLaunch = NoLaunch

Platforms == {"windows", "other"}

\* the targets the presentation layer asks for
LaunchPaths == {"C:\\Apps\\App.lnk", "C:\\Apps\\Bee.lnk"}

\* launch_app: under cfg(target_os = "windows") spawn `cmd /C start "" path`
\* and return the spawn error if any; on every build end with Ok(())
launch_app ==
    /\ phase = "running"
    /\ Len(procs) < MaxLaunches
    /\ \E path \in LaunchPaths, spawnOk \in BOOLEAN :
        IF platform = "windows"
        THEN IF spawnOk
             THEN /\ procs' = Append(procs, path)
                  /\ lastLaunch' = [asked |-> TRUE, spawned |-> TRUE]
                  /\ ret' = Return("launch_app", TRUE)
             ELSE /\ lastLaunch' = [asked |-> TRUE, spawned |-> FALSE]
                  /\ ret' = Return("launch_app", FALSE)
                  /\ UNCHANGED procs
        ELSE /\ lastLaunch' = [asked |-> FALSE, spawned |-> FALSE]
             /\ ret' = Return("launch_app", TRUE)
             /\ UNCHANGED procs
    /\ UNCHANGED <<phase, visible, focused, pos, monitor, winSize, last_pos, taken, registered,
                   attempted, emitted, trayBuilt, keyDown, tasks, nPressed, nSpawned, nToggles,
                   saved, platform>>
    /\ UNCHANGED scanVars
    /\ UNCHANGED lockVars

(***************************************************************************)
(* The environment of the popup.                                           *)
(***************************************************************************)
\* where the window manager first puts the popup
StartPositions == {WindowPos(-7, 30)}

\* where the user drags it
Positions == {WindowPos(100, 200)}

Size(w, h) == [width |-> w, height |-> h]

\* the monitor and the popup's size: what current_monitor and outer_size report
Screens ==
    { [monitor |-> None,                   winSize |-> Some(Size(600, 400))],
      [monitor |-> Some(Size(1920, 1080)), winSize |-> Some(Size(600, 400))],
      [monitor |-> Some(Size(1365, 767)),  winSize |-> Some(Size(1400, 901))],
      [monitor |-> Some(Size(1920, 1080)), winSize |-> None] }

\* the user drags the popup
MoveWindow ==
    /\ phase = "running"
    /\ visible
    /\ \E p \in Positions : p # pos /\ pos' = p
    /\ UNCHANGED <<phase, visible, focused, monitor, winSize, last_pos, taken, registered,
                   attempted, emitted, trayBuilt, keyDown, tasks, nPressed, nSpawned, nToggles,
                   saved, ret>>
    /\ UNCHANGED scanVars
    /\ UNCHANGED lockVars
    /\ UNCHANGED launchVars

ScanIdle ==
    /\ env = [v \in EnvVarSet |-> "unset"]
    /\ disk = <<>>
    /\ apps = NoResult

Init ==
    /\ ScanIdle
    /\ WinCreated
    /\ visible \in BOOLEAN
    /\ pos \in StartPositions
    /\ \E s \in Screens : monitor = s.monitor /\ winSize = s.winSize
    /\ taken \in SUBSET CandidateIds
    /\ LaunchIdle
    /\ LockIdle
    /\ platform = "windows"

Next ==
    \/ setup
    \/ HotkeyEvent
    \/ TaskCheck
    \/ TaskAct
    \/ TrayLeftClick
    \/ TrayMenuShow
    \/ TrayMenuQuit
    \/ hide_window
    \/ show_window
    \/ save_window_pos
    \/ restore_window_pos
    \/ MoveWindow

Spec == Init /\ [][Next]_vars

(***************************************************************************)
(* Toggle requests processed one after another: a request is taken only    *)
(* when no toggle task is under way, and nothing but toggles acts on the    *)
(* popup.                                                                  *)
(***************************************************************************)
SeqHotkeyEvent ==
    \E state \in {"Pressed", "Released"} :
        /\ state = "Pressed" => Pending = 0
        /\ HotkeyCallback(state, MaxSeqToggles)

SeqTrayLeftClick == Pending = 0 /\ TrayClick(MaxSeqToggles)

NextToggle ==
    \/ setup
    \/ SeqHotkeyEvent
    \/ TaskCheck
    \/ TaskAct
    \/ SeqTrayLeftClick

SpecToggle == Init /\ [][NextToggle]_vars

(***************************************************************************)
(* Toggle requests alone, their tasks running on the task pool in any      *)
(* order: a press or a tray click may come while earlier tasks are under   *)
(* way.                                                                    *)
(***************************************************************************)
NextConcurrent ==
    \/ setup
    \/ HotkeyEvent
    \/ TaskCheck
    \/ TaskAct
    \/ TrayLeftClick

SpecConcurrent == Init /\ [][NextConcurrent]_vars

(***************************************************************************)
(* Position commands running concurrently, the popup shown and dragged in  *)
(* between.                                                                *)
(***************************************************************************)
InitLock ==
    /\ ScanIdle
    /\ WinCreated
    /\ visible = TRUE
    /\ pos \in StartPositions
    /\ \E s \in Screens : monitor = s.monitor /\ winSize = s.winSize
    /\ taken = {}
    /\ LaunchIdle
    /\ LockIdle
    /\ platform = "windows"

NextLock ==
    \/ setup
    \/ show_window
    \/ MoveWindow
    \/ StartCall
    \/ ReadPosition
    \/ Lock
    \/ Write
    \/ Clone
    \/ Unlock
    \/ Apply
    \/ ReturnOk

SpecLock == InitLock /\ [][NextLock]_vars

(***************************************************************************)
(* Launches, on either build.                                              *)
(***************************************************************************)
InitLaunch ==
    /\ ScanIdle
    /\ WinCreated
    /\ visible \in BOOLEAN
    /\ pos \in StartPositions
    /\ \E s \in Screens : monitor = s.monitor /\ winSize = s.winSize
    /\ taken \in SUBSET CandidateIds
    /\ LaunchIdle
    /\ LockIdle
    /\ platform \in Platforms

NextLaunch ==
    \/ setup
    \/ launch_app

SpecLaunch == InitLaunch /\ [][NextLaunch]_vars

(***************************************************************************)
(* The disks the scanner can meet.                                         *)
(***************************************************************************)
RootIndex(v) == CHOOSE i \in 1..Len(EnvVars) : EnvVars[i] = v

DiskOK(d, e) ==
    /\ \A i \in 1..Len(d) : e[d[i].root] = "present"
    /\ \A i \in 1..(Len(d) - 1) : RootIndex(d[i].root) <= RootIndex(d[i+1].root)

Disks == UNION {[1..n -> [root : EnvVarSet, item : Pool]] : n \in 0..MaxFiles}

InitScan ==
    /\ env \in [EnvVarSet -> {"unset", "absent", "present"}]
    /\ disk \in Disks
    /\ DiskOK(disk, env)
    /\ apps = NoResult
    /\ WinCreated
    /\ visible = TRUE
    /\ pos = [x |-> 0, y |-> 0]
    /\ monitor = None
    /\ winSize = None
    /\ taken = {}
    /\ LaunchIdle
    /\ LockIdle
    /\ platform = "windows"

NextScan == get_apps

SpecScan == InitScan /\ [][NextScan]_vars

(***************************************************************************)
(* Properties of the scanner.                                              *)
(***************************************************************************)
Scanned == apps.returned

\* the entries pushed by the loops of the scan that produced apps, in traversal order
Traversal == Collect(get_start_menu_dirs)

NoiseWords == {W_UNINSTALL, W_README, W_HELP, W_MANUAL}

\* C1: the list returned by scan_apps holds no two entries with the same name,
\* names compared exactly.
C1_NoDuplicateNames ==
    Scanned =>
        \A i, j \in 1..Len(apps.value) :
            i # j => apps.value[i].name # apps.value[j].name

\* a scan that met the same name twice
C1_Witness ==
    /\ Scanned
    /\ \E i, j \in 1..Len(Traversal) : i < j /\ Traversal[i].name = Traversal[j].name
    /\ Len(apps.value) < Len(Traversal)

\* C2: the list returned by scan_apps is strictly ascending by name in byte
\* order: of two adjacent entries the first has the smaller name.
C2_SortedByName ==
    Scanned =>
        \A i \in 1..(Len(apps.value) - 1) :
            StrLess(apps.value[i].name, apps.value[i+1].name)

\* a scan that met "app" before "Bee" and returned them the other way round
C2_Witness ==
    /\ Scanned
    /\ Len(apps.value) = 2
    /\ Len(Traversal) = 2
    /\ Traversal[1].name = N_app /\ Traversal[2].name = N_Bee
    /\ apps.value[1].name = N_Bee /\ apps.value[2].name = N_app

\* C3: every returned entry is the first entry of its name in traversal order
\* (roots in list order, walk order inside a root): its path and category are
\* those of that first occurrence.
C3_FirstOccurrenceKept ==
    Scanned =>
        \A k \in 1..Len(apps.value) :
            \E i \in 1..Len(Traversal) :
                /\ Traversal[i].name = apps.value[k].name
                /\ \A j \in 1..(i - 1) : Traversal[j].name # apps.value[k].name
                /\ apps.value[k].path = Traversal[i].path
                /\ apps.value[k].category = Traversal[i].category

\* a scan that met one name in two roots with different categories
C3_Witness ==
    /\ Scanned
    /\ \E i, j \in 1..Len(Traversal) :
        /\ i < j
        /\ Traversal[i].name = Traversal[j].name
        /\ Traversal[i].category # Traversal[j].category
        /\ Traversal[i].path # Traversal[j].path
        /\ \E k \in 1..Len(apps.value) : apps.value[k] = Traversal[i]

\* the shortcut files the walks of the existing roots yield
WalkedShortcuts ==
    { d.item : d \in { disk[i] : i \in 1..Len(disk) } } \cap
    { it \in Pool : it.ok /\ Depth(it) <= MAX_DEPTH /\ extension(it.file) = Some(LNK) }

HasNoiseWord(name) == \E w \in NoiseWords : contains(to_lowercase(name), w)

\* C4: no returned name contains, lowercased, one of "uninstall", "readme",
\* "help", "manual"; and every walked shortcut whose lowercased name
\* contains none of them has its name in the result.
C4_NoiseFiltered ==
    Scanned =>
        /\ \A k \in 1..Len(apps.value) : ~HasNoiseWord(apps.value[k].name)
        /\ \A it \in WalkedShortcuts :
              ~HasNoiseWord(file_stem(it.file)) =>
                  \E k \in 1..Len(apps.value) : apps.value[k].name = file_stem(it.file)

\* a scan that met a shortcut with a noise word in mixed case next to a clean one
C4_Witness ==
    /\ Scanned
    /\ \E it \in WalkedShortcuts :
          HasNoiseWord(file_stem(it.file)) /\ ~IsNoiseCaseSensitive(file_stem(it.file))
    /\ \E it \in WalkedShortcuts : ~HasNoiseWord(file_stem(it.file))
    /\ Len(apps.value) = 1

\* the roots of the list that exist on disk
ExistingDirs == SelectSeq(get_start_menu_dirs, exists)

\* C5: a root missing on disk contributes no entry and raises no error: the scan
\* returns what it returns for the list without the missing roots, and get_apps
\* returns ok.
C5_AbsentRootSkipped ==
    Scanned =>
        /\ apps.ok
        /\ apps.value = scan_apps(ExistingDirs)
        /\ \A k \in 1..Len(apps.value) : env[apps.value[k].path.base] = "present"

\* a scan whose list has a missing root ahead of a root holding a shortcut
C5_Witness ==
    /\ Scanned
    /\ env["PROGRAMDATA"] = "absent"
    /\ env["USERPROFILE"] = "present"
    /\ Len(get_start_menu_dirs) > Len(ExistingDirs)
    /\ Len(apps.value) > 0

(***************************************************************************)
(* Properties of the popup.                                                *)
(***************************************************************************)
RECURSIVE CountEvents(_, _)
CountEvents(evs, name) ==
    IF evs = <<>> THEN 0
    ELSE (IF Head(evs).name = name THEN 1 ELSE 0) + CountEvents(Tail(evs), name)

Started == phase # "created"

\* C6: once setup has run the popup is Hidden; toggle requests processed one
\* after another alternate the state, so after n of them the popup is Shown
\* iff n is odd, and only the toggles that show emit reset-search: one for
\* the first, none for the second, (n + 1) / 2 in all.
C6_TogglesAlternate ==
    Started =>
        /\ visible <=> (nToggles % 2 = 1)
        /\ CountEvents(emitted, "reset-search") = (nToggles + 1) \div 2

\* a hotkey press and a tray click, one after the other: shown, then hidden again
C6_Witness ==
    /\ Started
    /\ nToggles = 2
    /\ nSpawned = 1
    /\ Pending = 0
    /\ ~visible
    /\ CountEvents(emitted, "reset-search") = 1

\* C7: a released transition changes neither the visibility nor the events
\* emitted nor the toggle tasks; a pressed transition spawns exactly one toggle
\* task, and nothing else spawns one: a keystroke toggles once.
C7_OnlyPressedToggles ==
    [][ /\ (keyDown /\ ~keyDown') =>
              UNCHANGED <<visible, focused, pos, emitted, tasks, nSpawned, nToggles>>
        /\ (~keyDown /\ keyDown') =>
              /\ nSpawned' = nSpawned + 1
              /\ tasks' = [tasks EXCEPT !.spawned = @ + 1]
        /\ (keyDown' = keyDown) => nSpawned' = nSpawned ]_vars

\* one keystroke, pressed and released, and its single toggle carried out
C7_Witness ==
    /\ ~keyDown
    /\ nPressed = 1
    /\ nSpawned = 1
    /\ nToggles = 1
    /\ Pending = 0
    /\ visible

\* the label of each candidate, as the presentation layer shows it
ExpectedLabel(i) ==
    CASE i = 1 -> <<"Ctrl", "+", "Shift", "+", "Space">>
      [] i = 2 -> <<"Ctrl", "+", "Shift", "+", "F1">>
      [] i = 3 -> <<"Ctrl", "+", "Shift", "+", "Q">>

FreeCandidates == CandidateIds \ taken

FirstFree == CHOOSE i \in FreeCandidates : \A j \in FreeCandidates : i <= j

\* C8: with the first k candidates taken and candidate k+1 free, register_hotkey
\* binds candidate k+1, has tried candidates 1..k+1 in order and no later one,
\* and has emitted hotkey-registered once, with the label of candidate k+1, and
\* no hotkey-failed.
C8_FirstFreeCandidateRegistered ==
    (Started /\ FreeCandidates # {}) =>
        /\ registered = Some(FirstFree)
        /\ attempted = [i \in 1..FirstFree |-> i]
        /\ CountEvents(emitted, "hotkey-registered") = 1
        /\ CountEvents(emitted, "hotkey-failed") = 0
        /\ \E n \in 1..Len(emitted) : emitted[n] = Event("hotkey-registered", ExpectedLabel(FirstFree))

\* the first candidate taken, the second and third free: the second is bound, the third untried
C8_Witness ==
    /\ Started
    /\ taken = {1}
    /\ registered = Some(2)
    /\ attempted = <<1, 2>>

\* C9: with every candidate taken, register_hotkey emits hotkey-failed once and
\* never hotkey-registered, binds nothing, and setup completes with the tray
\* built, so that the tray toggle remains.
C9_AllTakenIsNotFatal ==
    (Started /\ FreeCandidates = {}) =>
        /\ CountEvents(emitted, "hotkey-failed") = 1
        /\ CountEvents(emitted, "hotkey-registered") = 0
        /\ registered = None
        /\ nPressed = 0
        /\ trayBuilt
        /\ phase = "running" => (nToggles + Pending < MaxToggles => ENABLED TrayLeftClick)

\* every candidate taken, and the popup shown by the tray
C9_Witness ==
    /\ phase = "running"
    /\ taken = CandidateIds
    /\ attempted = <<1, 2, 3>>
    /\ registered = None
    /\ nToggles = 1
    /\ visible

Resets(evs) == CountEvents(evs, "reset-search")

\* C11: every step that takes the popup from Hidden to Shown emits one
\* reset-search, whichever operation takes it.
C11_ResetOnEveryShow ==
    [][ (Started /\ ~visible /\ visible') => Resets(emitted') = Resets(emitted) + 1 ]_vars

\* C12: the tray's show item recenters, shows, takes the focus and emits one
\* reset-search whether the popup was Hidden or Shown, and leaves it Shown; a
\* second show leaves it Shown as the first did.
C12_ShowRequestedIsIdempotent ==
    [][ TrayMenuShow =>
            /\ pos' = center_window_on_screen(pos)
            /\ visible'
            /\ focused'
            /\ Resets(emitted') = Resets(emitted) + 1
            /\ Len(emitted') = Len(emitted) + 1 ]_vars

\* the show item chosen twice in a row, no toggle and no command in between
C12_Witness ==
    /\ phase = "running"
    /\ nToggles = 0
    /\ nSpawned = 0
    /\ ret = NoReturn
    /\ Resets(emitted) = 2
    /\ visible
    /\ focused

\* the name of the directory that holds the file of a path
ParentDirName(path) == IF path.tail = <<>> THEN "Other" ELSE path.tail[Len(path.tail)]

\* C13: the category of every returned entry is the name of the directory that
\* immediately contains its shortcut file, "Other" if there is no such name.
C13_CategoryIsParentDir ==
    Scanned =>
        \A k \in 1..Len(apps.value) :
            apps.value[k].category = ParentDirName(apps.value[k].path)

\* C14: launch_app returns ok only when the OS was asked to start the target
\* and the spawn succeeded; a failed spawn and a build for an unsupported
\* platform both return an error.
C14_LaunchOkOnlyIfSpawned ==
    ret.cmd = "launch_app" =>
        /\ ret.ok <=> (lastLaunch.asked /\ lastLaunch.spawned)
        /\ platform # "windows" => ~ret.ok

\* C15: two toggles started from Hidden and run concurrently end, whatever the
\* interleaving of their visibility checks and their actions, as two toggles
\* run one after the other do: Hidden, with one reset-search emitted.
C15_ConcurrentTogglesAtomic ==
    (Started /\ nToggles = 2 /\ Pending = 0) =>
        /\ ~visible
        /\ Resets(emitted) = 1

WindowOpPcs == {"outer_position", "apply"}

CriticalPcs == {"write", "clone", "unlock"}

Active == {c \in CallIds : calls[c].op # "idle"}

\* C16: the lock on the saved position is held only around the write or the
\* clone of the slot: the call that holds it is at no window operation, a call
\* that has left that statement or returned holds nothing, at most one call
\* holds it, and whenever calls are under way one of them can take a step.
C16_ShortCriticalSection ==
    /\ \A c \in CallIds :
          /\ lockHolder = Some(c) => calls[c].pc \in CriticalPcs
          /\ calls[c].pc \in CriticalPcs => lockHolder = Some(c)
          /\ calls[c].pc \in WindowOpPcs => lockHolder # Some(c)
    /\ Active # {} => \E c \in Active : calls[c].pc # "lock" \/ lockHolder = None

\* a save holding the guard to write while a restore waits for it
C16_Witness ==
    \E c, d \in CallIds :
        /\ calls[c].op = "save_window_pos" /\ calls[c].pc = "write"
        /\ calls[d].op = "restore_window_pos" /\ calls[d].pc = "lock"
        /\ lockHolder = Some(c)
        /\ last_pos # None

\* C17: the saved position is empty at process start and changes only in a
\* save_window_pos that read the window position and returned ok; a
\* save_window_pos that returns an error leaves it as it was, and so do
\* restore_window_pos, show_window, hide_window, the toggles and the tray.
C17_OnlySuccessfulSaveWrites ==
    /\ [](phase = "created" => last_pos = None)
    /\ [][ /\ last_pos' # last_pos =>
                (save_window_pos /\ ret' = Return("save_window_pos", TRUE))
           /\ (save_window_pos /\ ret' = Return("save_window_pos", FALSE)) =>
                last_pos' = last_pos ]_vars

\* a position saved, the popup toggled and restored, then a save that failed: the slot still holds it
C17_Witness ==
    /\ ret = Return("save_window_pos", FALSE)
    /\ last_pos = Some(WindowPos(100, 200))
    /\ nToggles > 0
    /\ pos # WindowPos(100, 200)

\* the steps that apply the centering policy: setup, a toggle or a show item
\* that shows the popup, a restore_window_pos that finds no saved position
CenteringStep ==
    \/ setup
    \/ Resets(emitted') = Resets(emitted) + 1
    \/ (restore_window_pos /\ last_pos = None)

\* the size centering works with: what outer_size reports, 0 x 0 when it reports nothing
PopupSize == IF winSize = None THEN [width |-> 0, height |-> 0] ELSE winSize[1]

\* q is d / 2 in i32 arithmetic: the half of d, rounded toward zero
IsHalfOf(q, d) ==
    /\ 2 * q \in {d - 1, d, d + 1}
    /\ d >= 0 => (0 <= 2 * q /\ 2 * q <= d)
    /\ d <= 0 => (d <= 2 * q /\ 2 * q <= 0)

\* C18: with monitor information available, centering puts the popup at
\* x = (monitor_width - popup_width) / 2 and
\* y = monitor_height / 2 - popup_height / 2 - 80, on every monitor of the model.
C18_CenteringFormula ==
    [][ (CenteringStep /\ monitor # None) =>
            /\ IsHalfOf(pos'.x, monitor[1].width - PopupSize.width)
            /\ LET a == monitor[1].height \div 2
                   b == PopupSize.height \div 2
               IN  /\ IsHalfOf(a, monitor[1].height)
                   /\ IsHalfOf(b, PopupSize.height)
                   /\ pos'.y = a - b - 80 ]_vars

\* a popup wider and higher than its monitor, dragged away and centered again by a toggle
C18_Witness ==
    /\ monitor = Some(Size(1365, 767))
    /\ winSize = Some(Size(1400, 901))
    /\ saved = Some(WindowPos(100, 200))
    /\ nToggles = 2
    /\ visible
    /\ pos = WindowPos(-17, -147)

\* C19: without monitor information, centering leaves the popup where it is and
\* raises no error: a toggle or a show item that shows the popup leaves it
\* Shown, and restore_window_pos without a saved position returns ok.
C19_NoMonitorKeepsPosition ==
    [][ (CenteringStep /\ monitor = None) =>
            /\ pos' = pos
            /\ Resets(emitted') = Resets(emitted) + 1 => (visible' /\ focused')
            /\ restore_window_pos => ret' = Return("restore_window_pos", TRUE) ]_vars

\* no monitor: the popup dragged, shown again by a toggle and restored without a saved position
C19_Witness ==
    /\ monitor = None
    /\ pos = WindowPos(100, 200)
    /\ last_pos = None
    /\ ret = Return("restore_window_pos", TRUE)
    /\ nToggles = 2
    /\ visible

====
